---- MODULE Spec2Model ----
(***************************************************************************)
(* Model of the Create/Read/Update handlers of the okta_app_oauth_api_scope *)
(* resource, the okta_user resource (with its Delete), the okta_app_swa     *)
(* resource and of the okta_users data source (collectUsers).  Every        *)
(* handler is a sequential                                                  *)
(* program: pc is its position, calls is the log of the remote calls it has *)
(* issued (a failed call is logged with ok = FALSE), ret is what it         *)
(* returned.  The remote answers every call either by accepting it or with  *)
(* an error.                                                                *)
(***************************************************************************)
EXTENDS Naturals, Sequences, FiniteSets, TLC

VARIABLES
    op,      \* the handler the framework dispatched, "none" before it did
    pc,      \* the handler's position
    calls,   \* the remote calls issued so far, in order
    ret,     \* what the handler returned: "none" while it runs, "ok", "err"
    cfg,     \* the configuration and the diff the framework hands the handler
    d,       \* the resource data the handler writes (SetId, Set)
    grants,  \* remote: the application's scope consent grants
    ruser,   \* remote: the user
    rapp,    \* remote: the SWA application
    loc      \* the handler's local variables

vars == <<op, pc, calls, ret, cfg, d, grants, ruser, rapp, loc>>

(***************************************************************************)
(* Bounds of the model.                                                    *)
(***************************************************************************)
\* longest configured "scopes" list
MaxScopes == 2
\* most pages the ListUsers endpoint serves for one search
MaxPages == 3
\* most users on one page
MaxPageSize == 2

\* scope names an application can be granted
ScopeNames == {"a", "b", "c"}

RECURSIVE SeqsUpTo(_, _)
SeqsUpTo(S, n) ==
    IF n = 0 THEN {<<>>}
    ELSE LET shorter == SeqsUpTo(S, n - 1)
         IN  shorter \cup {Append(s, x) : s \in shorter, x \in S}

Range(s) == {s[i] : i \in 1..Len(s)}

NoRepeat(s) == \A i, j \in 1..Len(s) : i # j => s[i] # s[j]

\* number of entries of the call log that satisfy P
Count(log, P(_)) == Cardinality({i \in 1..Len(log) : P(log[i])})

Call(name, arg, ok) == [name |-> name, arg |-> arg, ok |-> ok]

NoLocals ==
    [scopes |-> <<>>, grantList |-> <<>>, revokeList |-> <<>>,
     revokeListIds |-> <<>>, i |-> 0, results |-> <<>>, after |-> ""]

NoConfig ==
    [scopes |-> <<>>, status |-> "", oldStatus |-> "", changed |-> {},
     roles |-> FALSE, groups |-> FALSE, pages |-> <<>>]

NoData == [id |-> "", status |-> "", scopes |-> <<>>, written |-> {}, users |-> <<>>]

NoUser == [status |-> "", profile |-> "", password |-> "", question |-> ""]

NoApp == [status |-> "", settings |-> ""]

Init ==
    /\ op = "none"
    /\ pc = "idle"
    /\ calls = <<>>
    /\ ret = "none"
    /\ cfg = NoConfig
    /\ d = NoData
    /\ grants = <<>>
    /\ ruser = NoUser
    /\ rapp = NoApp
    /\ loc = NoLocals

\* a handler returns: r is "ok" (nil) or "err"
Return(r) == ret' = r /\ pc' = "done"

(***************************************************************************)
(* okta_app_oauth_api_scope                                                *)
(***************************************************************************)
AppId == "app1"

\* the id the remote gives the grant of a scope
GrantId(scope) == "g-" \o scope

\* the remote's grant of a scope
Grant(scope) == [Id |-> GrantId(scope), ScopeId |-> scope]

\* the grant lists the remote can hold: no scope is granted twice
GrantLists ==
    {[i \in 1..Len(s) |-> Grant(s[i])] :
        s \in {t \in SeqsUpTo(ScopeNames, Cardinality(ScopeNames)) : NoRepeat(t)}}

contains(list, x) == \E i \in 1..Len(list) : list[i] = x

\* the ScopeId of every grant of a list, in order
ScopeIds(from) == [i \in 1..Len(from) |-> from[i].ScopeId]

\* the diff with every desired scope granted again, granted or not
getOAuthApiScopeUpdateLists_NoCurrentCheck(desiredScopes, from) ==
    LET currentScopes == ScopeIds(from)
    IN  [grant  |-> desiredScopes,
         revoke |-> SelectSeq(currentScopes, LAMBDA s : ~contains(desiredScopes, s))]

\* getOAuthApiScopeUpdateLists: the scopes to grant and the scopes to revoke
getOAuthApiScopeUpdateLists(desiredScopes, from) ==
    LET currentScopes == ScopeIds(from)
    IN  [grant  |-> SelectSeq(desiredScopes, LAMBDA s : ~contains(currentScopes, s)),
         revoke |-> SelectSeq(currentScopes, LAMBDA s : ~contains(desiredScopes, s))]

\* the map keyed by the grants' Id instead of their ScopeId
getOAuthApiScopeIdMap_KeyedById(currentScopes) ==
    [s \in ScopeNames |->
        IF \E i \in 1..Len(currentScopes) : currentScopes[i].Id = s
        THEN s
        ELSE ""]

\* scope name -> grant id; a name with no grant reads as "" (Go's zero value)
getOAuthApiScopeIdMap(currentScopes) ==
    [s \in ScopeNames |->
        IF \E i \in 1..Len(currentScopes) : currentScopes[i].ScopeId = s
        THEN LET last == CHOOSE i \in 1..Len(currentScopes) :
                            /\ currentScopes[i].ScopeId = s
                            /\ \A j \in (i + 1)..Len(currentScopes) :
                                  currentScopes[j].ScopeId # s
             IN  currentScopes[last].Id
        ELSE ""]

\* the remote after it accepted GrantConsentToScope: an existing grant is kept
GrantConsentToScope(gs, scope) ==
    IF contains(ScopeIds(gs), scope) THEN gs ELSE Append(gs, Grant(scope))

\* the remote after it accepted RevokeScopeConsentGrant
RevokeScopeConsentGrant(gs, id) == SelectSeq(gs, LAMBDA g : g.Id # id)

\* the answers of the remote to RevokeScopeConsentGrant: 404 for an unknown grant
RevokeAnswers(gs, id) ==
    IF \E i \in 1..Len(gs) : gs[i].Id = id THEN {"ok", "err"} ELSE {"404", "err"}

suppressErrorOn404(answer) == IF answer = "404" THEN "ok" ELSE answer

BeginScopeCreate ==
    /\ pc = "idle"
    /\ \E desired \in SeqsUpTo(ScopeNames, MaxScopes), current \in GrantLists :
          /\ cfg' = [NoConfig EXCEPT !.scopes = desired]
          /\ d' = [NoData EXCEPT !.scopes = desired]
          /\ grants' = current
          /\ loc' = [NoLocals EXCEPT !.grantList = desired, !.i = 1]
    /\ op' = "ScopeCreate"
    /\ pc' = "grant"
    /\ UNCHANGED <<calls, ret, ruser, rapp>>

BeginScopeUpdate ==
    /\ pc = "idle"
    /\ \E desired \in SeqsUpTo(ScopeNames, MaxScopes), current \in GrantLists :
          /\ cfg' = [NoConfig EXCEPT !.scopes = desired]
          /\ d' = [NoData EXCEPT !.id = AppId, !.scopes = desired]
          /\ grants' = current
    /\ op' = "ScopeUpdate"
    /\ pc' = "list"
    /\ UNCHANGED <<calls, ret, ruser, rapp, loc>>

\* resourceAppOAuthApiScopeUpdate, from its start to the diff of the two lists
ScopeUpdate_List ==
    /\ op = "ScopeUpdate" /\ pc = "list"
    /\ \E ok \in BOOLEAN :
          /\ calls' = Append(calls, Call("ListScopeConsentGrants", "", ok))
          /\ IF ok
             THEN LET lists == getOAuthApiScopeUpdateLists(d.scopes, grants)
                  IN  /\ loc' = [loc EXCEPT !.scopes = grants,
                                            !.grantList = lists.grant,
                                            !.revokeList = lists.revoke,
                                            !.i = 1]
                      /\ pc' = "grant"
                      /\ UNCHANGED ret
             ELSE /\ Return("err")
                  /\ UNCHANGED loc
    /\ UNCHANGED <<op, cfg, d, grants, ruser, rapp>>

\* where a handler goes once grantOAuthApiScopes returned nil
AfterGrant(o) == IF o = "ScopeCreate" THEN "read" ELSE "idmap"

\* grantOAuthApiScopes with the error of GrantConsentToScope dropped
ScopeGrant_IgnoreError ==
    /\ op \in {"ScopeCreate", "ScopeUpdate"} /\ pc = "grant"
    /\ IF loc.i <= Len(loc.grantList)
       THEN \E ok \in BOOLEAN :
               /\ calls' = Append(calls,
                                  Call("GrantConsentToScope", loc.grantList[loc.i], ok))
               /\ grants' = IF ok THEN GrantConsentToScope(grants, loc.grantList[loc.i])
                                  ELSE grants
               /\ loc' = [loc EXCEPT !.i = @ + 1]
               /\ UNCHANGED <<pc, ret>>
       ELSE /\ pc' = AfterGrant(op)
            /\ UNCHANGED <<calls, ret, grants, loc>>
    /\ UNCHANGED <<op, cfg, d, ruser, rapp>>

\* grantOAuthApiScopes: one iteration of its loop, or its return of nil
ScopeGrant ==
    /\ op \in {"ScopeCreate", "ScopeUpdate"} /\ pc = "grant"
    /\ IF loc.i <= Len(loc.grantList)
       THEN \E ok \in BOOLEAN :
               /\ calls' = Append(calls,
                                  Call("GrantConsentToScope", loc.grantList[loc.i], ok))
               /\ IF ok
                  THEN /\ grants' = GrantConsentToScope(grants, loc.grantList[loc.i])
                       /\ loc' = [loc EXCEPT !.i = @ + 1]
                       /\ UNCHANGED <<pc, ret>>
                  ELSE /\ Return("err")
                       /\ UNCHANGED <<grants, loc>>
       ELSE /\ pc' = AfterGrant(op)
            /\ UNCHANGED <<calls, ret, grants, loc>>
    /\ UNCHANGED <<op, cfg, d, ruser, rapp>>

\* resourceAppOAuthApiScopeUpdate: the grant ids of the scopes to revoke
ScopeUpdate_IdMap ==
    /\ op = "ScopeUpdate" /\ pc = "idmap"
    /\ \E ok \in BOOLEAN :
          /\ calls' = Append(calls, Call("ListScopeConsentGrants", "", ok))
          /\ IF ok
             THEN LET scopeMap == getOAuthApiScopeIdMap(grants)
                  IN  /\ loc' = [loc EXCEPT
                               !.revokeListIds =
                                   [i \in 1..Len(loc.revokeList) |->
                                       scopeMap[loc.revokeList[i]]],
                               !.i = 1]
                      /\ pc' = "revoke"
                      /\ UNCHANGED ret
             ELSE /\ Return("err")
                  /\ UNCHANGED loc
    /\ UNCHANGED <<op, cfg, d, grants, ruser, rapp>>

\* revokeOAuthApiScope: one iteration of its loop, or its return of nil
ScopeRevoke ==
    /\ op = "ScopeUpdate" /\ pc = "revoke"
    /\ IF loc.i <= Len(loc.revokeListIds)
       THEN \E answer \in RevokeAnswers(grants, loc.revokeListIds[loc.i]) :
               /\ calls' = Append(calls,
                                  Call("RevokeScopeConsentGrant", loc.revokeListIds[loc.i],
                                       suppressErrorOn404(answer) = "ok"))
               /\ IF suppressErrorOn404(answer) = "ok"
                  THEN /\ grants' = RevokeScopeConsentGrant(grants,
                                                            loc.revokeListIds[loc.i])
                       /\ loc' = [loc EXCEPT !.i = @ + 1]
                       /\ UNCHANGED <<pc, ret>>
                  ELSE /\ Return("err")
                       /\ UNCHANGED <<grants, loc>>
       ELSE /\ pc' = "read"
            /\ UNCHANGED <<calls, ret, grants, loc>>
    /\ UNCHANGED <<op, cfg, d, ruser, rapp>>

\* what ListScopeConsentGrants hands resourceAppOAuthApiScopeRead: the grant
\* list, or nil when the response carried no list
ListAnswers(gs) == IF gs = <<>> THEN {"list", "nil", "err"} ELSE {"list", "err"}

\* resourceAppOAuthApiScopeRead with setOAuthApiScopes
ScopeRead ==
    /\ op \in {"ScopeCreate", "ScopeUpdate"} /\ pc = "read"
    /\ \E answer \in ListAnswers(grants) :
          /\ calls' = Append(calls, Call("Read", "", answer # "err"))
          /\ CASE answer = "err"  -> /\ Return("err")
                                     /\ UNCHANGED d
               [] answer = "nil"  -> /\ d' = [d EXCEPT !.id = ""]
                                     /\ Return("ok")
               [] answer = "list" -> /\ d' = [d EXCEPT !.id = AppId,
                                                       !.scopes = ScopeIds(grants)]
                                     /\ Return("ok")
    /\ UNCHANGED <<op, cfg, grants, ruser, rapp, loc>>

(***************************************************************************)
(* okta_user                                                               *)
(***************************************************************************)
statusActive == "ACTIVE"
userStatusStaged == "STAGED"
userStatusDeprovisioned == "DEPROVISIONED"
userStatusSuspended == "SUSPENDED"
userStatusProvisioned == "PROVISIONED"
userStatusPasswordExpired == "PASSWORD_EXPIRED"
userStatusRecovery == "RECOVERY"

\* the values the schema's ValidateFunc lets "status" take
ConfigStatuses ==
    {statusActive, userStatusStaged, userStatusDeprovisioned, userStatusSuspended}

UserId == "user1"

profileKeys ==
    <<"city", "cost_center", "country_code", "custom_profile_attributes",
      "department", "display_name", "division", "email", "employee_number",
      "first_name", "honorific_prefix", "honorific_suffix", "last_name",
      "locale", "login", "manager", "manager_id", "middle_name",
      "mobile_phone", "nick_name", "organization", "postal_address",
      "preferred_language", "primary_phone", "profile_url", "second_email",
      "state", "street_address", "timezone", "title", "user_type", "zip_code",
      "password", "recovery_question", "recovery_answer">>

\* the keys, other than "status", whose change the model draws
DiffKeys ==
    {"admin_roles", "group_memberships", "email", "password",
     "recovery_question", "recovery_answer"}

mapStatus(currentStatus) ==
    IF currentStatus = userStatusPasswordExpired \/ currentStatus = userStatusRecovery
    THEN statusActive
    ELSE currentStatus

\* d.HasChange(k)
HasChange(k) ==
    IF k = "status" THEN cfg.status # cfg.oldStatus ELSE k \in cfg.changed

hasProfileChange == \E i \in 1..Len(profileKeys) : HasChange(profileKeys[i])

\* the remote's answers to GetUser in resourceUserRead
GetUserAnswers == {"ok", "404", "err"}

\* the activate parameter resourceUserCreate passes to CreateUser
CreateUserActivate(status) ==
    IF status = userStatusStaged THEN "activate=false" ELSE "activate=default"

\* the status the remote gives a user created with this parameter
CreatedStatus(activate) ==
    IF activate = "activate=false" THEN {userStatusStaged}
    ELSE {statusActive, userStatusProvisioned}

\* the status set after the creation for SUSPENDED alone
CreateSetsStatus_SuspendedOnly(status) == status = userStatusSuspended

\* resourceUserCreate: whether the status is set after the creation
CreateSetsStatus(status) ==
    status = userStatusSuspended \/ status = userStatusDeprovisioned

\* resourceUserCreate: the step after the status update, after the group
\* assignment, after the role assignment and after CreateUser
CreateAfterGroups == IF CreateSetsStatus(cfg.status) THEN "status" ELSE "read"

CreateAfterRoles == IF cfg.groups THEN "groups" ELSE CreateAfterGroups

\* the group assignment taken for the step after CreateUser
CreateAfterCreateUser_GroupsFirst ==
    IF cfg.groups THEN "groups"
    ELSE IF cfg.roles THEN "roles" ELSE CreateAfterGroups

CreateAfterCreateUser == IF cfg.roles THEN "roles" ELSE CreateAfterRoles

BeginUserCreate ==
    /\ pc = "idle"
    /\ \E status \in ConfigStatuses, roles \in BOOLEAN, groups \in BOOLEAN :
          /\ cfg' = [NoConfig EXCEPT !.status = status, !.roles = roles,
                                     !.groups = groups]
          /\ d' = [NoData EXCEPT !.status = status]
    /\ op' = "UserCreate"
    /\ pc' = "createUser"
    /\ UNCHANGED <<calls, ret, grants, ruser, rapp, loc>>

\* resourceUserCreate: CreateUser without the SetId that follows it
UserCreate_CreateUser_NoSetId ==
    /\ op = "UserCreate" /\ pc = "createUser"
    /\ LET activate == CreateUserActivate(cfg.status)
       IN  \E ok \in BOOLEAN :
              /\ calls' = Append(calls, Call("CreateUser", activate, ok))
              /\ IF ok
                 THEN /\ \E st \in CreatedStatus(activate) :
                            ruser' = [status |-> st, profile |-> "new",
                                      password |-> "new", question |-> "new"]
                      /\ pc' = CreateAfterCreateUser
                      /\ UNCHANGED ret
                 ELSE /\ Return("err")
                      /\ UNCHANGED ruser
    /\ UNCHANGED <<op, cfg, d, grants, rapp, loc>>

\* resourceUserCreate: CreateUser and SetId
UserCreate_CreateUser ==
    /\ op = "UserCreate" /\ pc = "createUser"
    /\ LET activate == CreateUserActivate(cfg.status)
       IN  \E ok \in BOOLEAN :
              /\ calls' = Append(calls, Call("CreateUser", activate, ok))
              /\ IF ok
                 THEN /\ \E st \in CreatedStatus(activate) :
                            ruser' = [status |-> st, profile |-> "new",
                                      password |-> "new", question |-> "new"]
                      /\ d' = [d EXCEPT !.id = UserId]
                      /\ pc' = CreateAfterCreateUser
                      /\ UNCHANGED ret
                 ELSE /\ Return("err")
                      /\ UNCHANGED <<ruser, d>>
    /\ UNCHANGED <<op, cfg, grants, rapp, loc>>

\* resourceUserCreate: assignAdminRolesToUser
UserCreate_AssignAdminRoles ==
    /\ op = "UserCreate" /\ pc = "roles"
    /\ \E ok \in BOOLEAN :
          /\ calls' = Append(calls, Call("AssignAdminRoles", "", ok))
          /\ IF ok THEN pc' = CreateAfterRoles /\ UNCHANGED ret
                   ELSE Return("err")
    /\ UNCHANGED <<op, cfg, d, grants, ruser, rapp, loc>>

\* resourceUserCreate: assignGroupsToUser
UserCreate_AssignGroups ==
    /\ op = "UserCreate" /\ pc = "groups"
    /\ \E ok \in BOOLEAN :
          /\ calls' = Append(calls, Call("AssignGroups", "", ok))
          /\ IF ok THEN pc' = CreateAfterGroups /\ UNCHANGED ret
                   ELSE Return("err")
    /\ UNCHANGED <<op, cfg, d, grants, ruser, rapp, loc>>

\* resourceUserCreate: updateUserStatus
UserCreate_UpdateStatus ==
    /\ op = "UserCreate" /\ pc = "status"
    /\ \E ok \in BOOLEAN :
          /\ calls' = Append(calls, Call("UpdateUserStatus", cfg.status, ok))
          /\ IF ok
             THEN /\ ruser' = [ruser EXCEPT !.status = cfg.status]
                  /\ pc' = "read"
                  /\ UNCHANGED ret
             ELSE /\ Return("err")
                  /\ UNCHANGED ruser
    /\ UNCHANGED <<op, cfg, d, grants, rapp, loc>>

\* resourceUserRead
UserRead ==
    /\ op \in {"UserCreate", "UserUpdate"} /\ pc = "read"
    /\ \E answer \in GetUserAnswers :
          /\ calls' = Append(calls, Call("Read", "", answer # "err"))
          /\ CASE answer = "err" -> /\ Return("err")
                                    /\ UNCHANGED d
               [] answer = "404" -> /\ d' = [d EXCEPT !.id = ""]
                                    /\ Return("ok")
               [] answer = "ok"  -> /\ d' = [d EXCEPT !.status = mapStatus(ruser.status)]
                                    /\ Return("ok")
    /\ UNCHANGED <<op, cfg, grants, ruser, rapp, loc>>

\* resourceUserUpdate without its STAGED check
UpdateRefusesStaged_Never == FALSE

\* resourceUserUpdate: a change of the status to STAGED is refused

UpdateRefusesStaged == cfg.status = userStatusStaged /\ HasChange("status")

\* resourceUserUpdate without its DEPROVISIONED check
UpdateRefusesDeprovisioned_Never == FALSE

\* resourceUserUpdate: a profile change of a DEPROVISIONED user is refused

UpdateRefusesDeprovisioned ==
    cfg.status = userStatusDeprovisioned /\ hasProfileChange

\* resourceUserUpdate: the step after ChangePassword, after the group update,
\* after the role update, after UpdateUser and after the status update
UpdateAfterPassword ==
    IF HasChange("recovery_question") \/ HasChange("recovery_answer")
    THEN "recovery" ELSE "read"

UpdateAfterGroups == IF HasChange("password") THEN "password" ELSE UpdateAfterPassword

UpdateAfterRoles == IF HasChange("group_memberships") THEN "groups" ELSE UpdateAfterGroups

UpdateAfterProfile == IF HasChange("admin_roles") THEN "roles" ELSE UpdateAfterRoles

UpdateAfterStatus ==
    IF UpdateRefusesDeprovisioned THEN "refuse"
    ELSE IF hasProfileChange THEN "profile" ELSE UpdateAfterProfile

\* UpdateUser issued ahead of the status update
UpdateFirst_ProfileFirst ==
    IF hasProfileChange /\ ~UpdateRefusesDeprovisioned THEN "profile"
    ELSE IF HasChange("status") THEN "status" ELSE UpdateAfterStatus

\* resourceUserUpdate: the first step past the STAGED check
UpdateFirst == IF HasChange("status") THEN "status" ELSE UpdateAfterStatus

\* go to step p, or return the error of a refused update
Goto(p) == IF p = "refuse" THEN Return("err") ELSE pc' = p /\ UNCHANGED ret

BeginUserUpdate ==
    /\ pc = "idle"
    /\ \E status \in ConfigStatuses, old \in ConfigStatuses, changed \in SUBSET DiffKeys :
          /\ status # old \/ changed # {}
          /\ cfg' = [NoConfig EXCEPT !.status = status, !.oldStatus = old,
                                     !.changed = changed]
          /\ d' = [NoData EXCEPT !.id = UserId, !.status = old]
          /\ ruser' = [status |-> old, profile |-> "old", password |-> "old",
                       question |-> "old"]
    /\ op' = "UserUpdate"
    /\ pc' = "check"
    /\ UNCHANGED <<calls, ret, grants, rapp, loc>>

\* resourceUserUpdate, from its start to its first remote call
UserUpdate_Check ==
    /\ op = "UserUpdate" /\ pc = "check"
    /\ IF UpdateRefusesStaged THEN Return("err") ELSE Goto(UpdateFirst)
    /\ UNCHANGED <<op, calls, cfg, d, grants, ruser, rapp, loc>>

\* resourceUserUpdate: updateUserStatus and the DEPROVISIONED check
UserUpdate_UpdateStatus ==
    /\ op = "UserUpdate" /\ pc = "status"
    /\ \E ok \in BOOLEAN :
          /\ calls' = Append(calls, Call("UpdateUserStatus", cfg.status, ok))
          /\ IF ok
             THEN /\ ruser' = [ruser EXCEPT !.status = cfg.status]
                  /\ d' = [d EXCEPT !.status = cfg.status]
                  /\ Goto(UpdateAfterStatus)
             ELSE /\ Return("err")
                  /\ UNCHANGED <<ruser, d>>
    /\ UNCHANGED <<op, cfg, grants, rapp, loc>>

\* resourceUserUpdate: UpdateUser
UserUpdate_UpdateUser ==
    /\ op = "UserUpdate" /\ pc = "profile"
    /\ \E ok \in BOOLEAN :
          /\ calls' = Append(calls, Call("UpdateUser", "", ok))
          /\ IF ok
             THEN /\ ruser' = [ruser EXCEPT !.profile = "new"]
                  /\ Goto(UpdateAfterProfile)
             ELSE /\ Return("err")
                  /\ UNCHANGED ruser
    /\ UNCHANGED <<op, cfg, d, grants, rapp, loc>>

\* resourceUserUpdate: updateAdminRolesOnUser
UserUpdate_UpdateAdminRoles ==
    /\ op = "UserUpdate" /\ pc = "roles"
    /\ \E ok \in BOOLEAN :
          /\ calls' = Append(calls, Call("UpdateAdminRoles", "", ok))
          /\ IF ok
             THEN /\ d' = [d EXCEPT !.written = @ \cup {"admin_roles"}]
                  /\ Goto(UpdateAfterRoles)
             ELSE /\ Return("err")
                  /\ UNCHANGED d
    /\ UNCHANGED <<op, cfg, grants, ruser, rapp, loc>>

\* resourceUserUpdate: updateGroupsOnUser
UserUpdate_UpdateGroups ==
    /\ op = "UserUpdate" /\ pc = "groups"
    /\ \E ok \in BOOLEAN :
          /\ calls' = Append(calls, Call("UpdateGroups", "", ok))
          /\ IF ok
             THEN /\ d' = [d EXCEPT !.written = @ \cup {"group_memberships"}]
                  /\ Goto(UpdateAfterGroups)
             ELSE /\ Return("err")
                  /\ UNCHANGED d
    /\ UNCHANGED <<op, cfg, grants, ruser, rapp, loc>>

\* resourceUserUpdate: ChangePassword
UserUpdate_ChangePassword ==
    /\ op = "UserUpdate" /\ pc = "password"
    /\ \E ok \in BOOLEAN :
          /\ calls' = Append(calls, Call("ChangePassword", "", ok))
          /\ IF ok
             THEN /\ ruser' = [ruser EXCEPT !.password = "new"]
                  /\ Goto(UpdateAfterPassword)
             ELSE /\ Return("err")
                  /\ UNCHANGED ruser
    /\ UNCHANGED <<op, cfg, d, grants, rapp, loc>>

\* resourceUserUpdate: ChangeRecoveryQuestion
UserUpdate_ChangeRecoveryQuestion ==
    /\ op = "UserUpdate" /\ pc = "recovery"
    /\ \E ok \in BOOLEAN :
          /\ calls' = Append(calls, Call("ChangeRecoveryQuestion", "", ok))
          /\ IF ok
             THEN /\ ruser' = [ruser EXCEPT !.question = "new"]
                  /\ Goto("read")
             ELSE /\ Return("err")
                  /\ UNCHANGED ruser
    /\ UNCHANGED <<op, cfg, d, grants, rapp, loc>>

\* the statuses resourceUserRead records in the state
StateStatuses == ConfigStatuses \cup {userStatusProvisioned}

\* two passes whatever the status
Passes_AlwaysTwo(status) == 2

\* ensureUserDelete: the passes it makes on the user
Passes(status) == IF status = userStatusDeprovisioned THEN 1 ELSE 2

\* the remote after it accepted DeactivateOrDeleteUser: a user that is not
\* DEPROVISIONED is deprovisioned, a DEPROVISIONED user is deleted
DeactivateOrDeleteUser(user) ==
    IF user.status = userStatusDeprovisioned THEN NoUser
    ELSE [user EXCEPT !.status = userStatusDeprovisioned]

BeginUserDelete ==
    /\ pc = "idle"
    /\ \E status \in StateStatuses :
          /\ cfg' = [NoConfig EXCEPT !.status = status, !.oldStatus = status]
          /\ d' = [NoData EXCEPT !.id = UserId, !.status = status]
          /\ ruser' = [status |-> status, profile |-> "old", password |-> "old",
                       question |-> "old"]
    /\ loc' = [NoLocals EXCEPT !.i = 0]
    /\ op' = "UserDelete"
    /\ pc' = "delete"
    /\ UNCHANGED <<calls, ret, grants, rapp>>

\* ensureUserDelete: one iteration of its loop, and its return after the last
UserDelete_DeactivateOrDeleteUser ==
    /\ op = "UserDelete" /\ pc = "delete"
    /\ loc.i < Passes(d.status)
    /\ \E ok \in BOOLEAN :
          /\ calls' = Append(calls, Call("DeactivateOrDeleteUser", d.id, ok))
          /\ IF ok
             THEN /\ ruser' = DeactivateOrDeleteUser(ruser)
                  /\ loc' = [loc EXCEPT !.i = @ + 1]
                  /\ IF loc.i + 1 < Passes(d.status)
                     THEN UNCHANGED <<pc, ret>>
                     ELSE Return("ok")
             ELSE /\ Return("err")
                  /\ UNCHANGED <<ruser, loc>>
    /\ UNCHANGED <<op, cfg, d, grants, rapp>>

(***************************************************************************)
(* okta_app_swa                                                            *)
(***************************************************************************)
statusInactive == "INACTIVE"

SwaId == "swa1"

\* resourceAppSwaCreate: the activate parameter of CreateApplication
SwaActivate(status) == status = statusActive

BeginSwaCreate ==
    /\ pc = "idle"
    /\ \E status \in {statusActive, statusInactive} :
          /\ cfg' = [NoConfig EXCEPT !.status = status]
          /\ d' = [NoData EXCEPT !.status = status]
    /\ op' = "SwaCreate"
    /\ pc' = "createApp"
    /\ UNCHANGED <<calls, ret, grants, ruser, rapp, loc>>

BeginSwaUpdate ==
    /\ pc = "idle"
    /\ \E status \in {statusActive, statusInactive},
          old \in {statusActive, statusInactive} :
          /\ cfg' = [NoConfig EXCEPT !.status = status, !.oldStatus = old]
          /\ d' = [NoData EXCEPT !.id = SwaId, !.status = old]
          /\ rapp' = [status |-> old, settings |-> "old"]
    /\ op' = "SwaUpdate"
    /\ pc' = "updateApp"
    /\ UNCHANGED <<calls, ret, grants, ruser, loc>>

\* resourceAppSwaCreate: CreateApplication and SetId
SwaCreate_CreateApplication ==
    /\ op = "SwaCreate" /\ pc = "createApp"
    /\ \E ok \in BOOLEAN :
          /\ calls' = Append(calls,
                             Call("CreateApplication",
                                  IF SwaActivate(cfg.status) THEN "activate=true"
                                  ELSE "activate=false", ok))
          /\ IF ok
             THEN /\ rapp' = [status |-> IF SwaActivate(cfg.status)
                                         THEN statusActive ELSE statusInactive,
                              settings |-> "new"]
                  /\ d' = [d EXCEPT !.id = SwaId]
                  /\ pc' = "groupsAndUsers"
                  /\ UNCHANGED ret
             ELSE /\ Return("err")
                  /\ UNCHANGED <<rapp, d>>
    /\ UNCHANGED <<op, cfg, grants, ruser, loc>>

\* resourceAppSwaUpdate: UpdateApplication
SwaUpdate_UpdateApplication ==
    /\ op = "SwaUpdate" /\ pc = "updateApp"
    /\ \E ok \in BOOLEAN :
          /\ calls' = Append(calls, Call("UpdateApplication", "", ok))
          /\ IF ok
             THEN /\ rapp' = [rapp EXCEPT !.settings = "new"]
                  /\ pc' = "appStatus"
                  /\ UNCHANGED ret
             ELSE /\ Return("err")
                  /\ UNCHANGED rapp
    /\ UNCHANGED <<op, cfg, d, grants, ruser, loc>>

\* resourceAppSwaUpdate: setAppStatus
SwaUpdate_SetAppStatus ==
    /\ op = "SwaUpdate" /\ pc = "appStatus"
    /\ \E ok \in BOOLEAN :
          /\ calls' = Append(calls, Call("SetAppStatus", cfg.status, ok))
          /\ IF ok
             THEN /\ rapp' = [rapp EXCEPT !.status = cfg.status]
                  /\ pc' = "groupsAndUsers"
                  /\ UNCHANGED ret
             ELSE /\ Return("err")
                  /\ UNCHANGED rapp
    /\ UNCHANGED <<op, cfg, d, grants, ruser, loc>>

\* resourceAppSwaCreate, resourceAppSwaUpdate: handleAppGroupsAndUsers
SwaHandleAppGroupsAndUsers ==
    /\ op \in {"SwaCreate", "SwaUpdate"} /\ pc = "groupsAndUsers"
    /\ \E ok \in BOOLEAN :
          /\ calls' = Append(calls, Call("HandleAppGroupsAndUsers", "", ok))
          /\ IF ok THEN pc' = "read" /\ UNCHANGED ret
                   ELSE Return("err")
    /\ UNCHANGED <<op, cfg, d, grants, ruser, rapp, loc>>

\* resourceAppSwaRead: fetchApp finds the application, finds none, or fails
\* (as syncGroupsAndUsers may)
SwaRead ==
    /\ op \in {"SwaCreate", "SwaUpdate"} /\ pc = "read"
    /\ \E answer \in {"ok", "404", "err"} :
          /\ calls' = Append(calls, Call("Read", "", answer # "err"))
          /\ CASE answer = "err" -> /\ Return("err")
                                    /\ UNCHANGED d
               [] answer = "404" -> /\ d' = [d EXCEPT !.id = ""]
                                    /\ Return("ok")
               [] answer = "ok"  -> /\ d' = [d EXCEPT !.status = rapp.status]
                                    /\ Return("ok")
    /\ UNCHANGED <<op, cfg, grants, ruser, rapp, loc>>

(***************************************************************************)
(* okta_users (data source)                                                *)
(***************************************************************************)
\* the users of the pages before page k: they number the users of page k
RECURSIVE UsersBefore(_, _)
UsersBefore(sizes, k) ==
    IF k <= 1 THEN 0 ELSE UsersBefore(sizes, k - 1) + sizes[k - 1]

\* the server's pages for page sizes: every user is on one page
PagesOf(sizes) ==
    [k \in 1..Len(sizes) |->
        [j \in 1..sizes[k] |-> UsersBefore(sizes, k) + j]]

\* the cursor that names page k
Cursor(k) == ToString(k)

\* the server's response to ListUsers(after): a page and the link to the next
ListUsers(pages, after) ==
    LET k == IF after = "" THEN 1
             ELSE CHOOSE n \in 1..Len(pages) : Cursor(n) = after
    IN  [users |-> pages[k],
         next  |-> IF k < Len(pages) THEN Cursor(k + 1) ELSE ""]

\* sdk.GetAfterParam: the "after" of the response's next link, "" without one
GetAfterParam(res) == res.next

\* the page assigned to results.Users instead of appended
AppendUsers_Replace(results, users) == users

\* collectUsers: results.Users = append(results.Users, users...)

AppendUsers(results, users) == results \o users

BeginCollectUsers ==
    /\ pc = "idle"
    /\ \E n \in 1..MaxPages :
          \E sizes \in [1..n -> 0..MaxPageSize] :
             cfg' = [NoConfig EXCEPT !.pages = PagesOf(sizes)]
    /\ op' = "CollectUsers"
    /\ pc' = "listUsers"
    /\ UNCHANGED <<calls, ret, d, grants, ruser, rapp, loc>>

\* collectUsers: one invocation, up to its recursive call or its return
CollectUsers_ListUsers ==
    /\ op = "CollectUsers" /\ pc = "listUsers"
    /\ \E ok \in BOOLEAN :
          /\ calls' = Append(calls, Call("ListUsers", loc.after, ok))
          /\ IF ok
             THEN LET res == ListUsers(cfg.pages, loc.after)
                      after == GetAfterParam(res)
                  IN  /\ loc' = [loc EXCEPT
                                   !.results = AppendUsers(@, res.users),
                                   !.after = IF after # "" THEN after ELSE @]
                      /\ pc' = IF after # "" THEN "listUsers" ELSE "setUsers"
                      /\ UNCHANGED ret
             ELSE /\ Return("err")
                  /\ UNCHANGED loc
    /\ UNCHANGED <<op, cfg, d, grants, ruser, rapp>>

\* dataSourceUsersRead, after collectUsers returned nil: flattenUser may fail
DataSourceUsersRead_Set ==
    /\ op = "CollectUsers" /\ pc = "setUsers"
    /\ \E ok \in BOOLEAN :
          IF ok
          THEN /\ d' = [d EXCEPT !.id = "hash", !.users = loc.results]
               /\ Return("ok")
          ELSE /\ d' = [d EXCEPT !.id = "hash"]
               /\ Return("err")
    /\ UNCHANGED <<op, calls, cfg, grants, ruser, rapp, loc>>

Next ==
    \/ BeginScopeCreate
    \/ BeginScopeUpdate
    \/ ScopeUpdate_List
    \/ ScopeGrant
    \/ ScopeUpdate_IdMap
    \/ ScopeRevoke
    \/ ScopeRead
    \/ BeginUserCreate
    \/ UserCreate_CreateUser
    \/ UserCreate_AssignAdminRoles
    \/ UserCreate_AssignGroups
    \/ UserCreate_UpdateStatus
    \/ UserRead
    \/ BeginUserUpdate
    \/ UserUpdate_Check
    \/ UserUpdate_UpdateStatus
    \/ UserUpdate_UpdateUser
    \/ UserUpdate_UpdateAdminRoles
    \/ UserUpdate_UpdateGroups
    \/ UserUpdate_ChangePassword
    \/ UserUpdate_ChangeRecoveryQuestion
    \/ BeginUserDelete
    \/ UserDelete_DeactivateOrDeleteUser
    \/ BeginSwaCreate
    \/ SwaCreate_CreateApplication
    \/ BeginSwaUpdate
    \/ SwaUpdate_UpdateApplication
    \/ SwaUpdate_SetAppStatus
    \/ SwaHandleAppGroupsAndUsers
    \/ SwaRead
    \/ BeginCollectUsers
    \/ CollectUsers_ListUsers
    \/ DataSourceUsersRead_Set

Spec == Init /\ [][Next]_vars

\* a handler runs to its return: the provider never abandons a call in flight
FairSpec == Spec /\ WF_vars(Next)

(***************************************************************************)
(* Properties                                                              *)
(***************************************************************************)
Names(log) == [i \in 1..Len(log) |-> log[i].name]

IsPrefix(s, t) == Len(s) <= Len(t) /\ \A i \in 1..Len(s) : s[i] = t[i]

Issued(name) == \E i \in 1..Len(calls) : calls[i].name = name

Accepted(name) == \E i \in 1..Len(calls) : calls[i].name = name /\ calls[i].ok

LastCall == calls[Len(calls)]

\* resourceAppOAuthApiScopeUpdate has listed the grants and computed its lists
DiffComputed == op = "ScopeUpdate" /\ calls # <<>> /\ calls[1].ok

\* C1: getOAuthApiScopeUpdateLists returns as grant list exactly the scopes
\* that are desired and not currently granted and as revoke list exactly the
\* scopes that are granted and not desired; the lists are disjoint and
\* together they are the symmetric difference of the two sets.
C1_UpdateListsPartitionSymmetricDifference ==
    DiffComputed =>
        LET D == Range(cfg.scopes)
            C == {g.ScopeId : g \in Range(loc.scopes)}
            G == Range(loc.grantList)
            R == Range(loc.revokeList)
        IN  /\ G = D \ C
            /\ R = C \ D
            /\ G \cap R = {}
            /\ G \cup R = (D \cup C) \ (D \cap C)

C1_Witness ==
    /\ DiffComputed
    /\ loc.grantList # <<>>
    /\ loc.revokeList # <<>>
    /\ Range(cfg.scopes) \cap {g.ScopeId : g \in Range(loc.scopes)} # {}

\* C2: when resourceAppOAuthApiScopeUpdate returns without error, the scopes
\* granted to the application are exactly the scopes of the configuration.
C2_UpdateReachesDesiredScopes ==
    (op = "ScopeUpdate" /\ ret = "ok") =>
        {g.ScopeId : g \in Range(grants)} = Range(cfg.scopes)

C2_Witness ==
    /\ op = "ScopeUpdate" /\ ret = "ok"
    /\ Accepted("GrantConsentToScope")
    /\ Accepted("RevokeScopeConsentGrant")
    /\ {g.ScopeId : g \in Range(grants)} \cap {g.ScopeId : g \in Range(loc.scopes)} # {}

\* C3: resourceAppOAuthApiScopeUpdate issues at most one GrantConsentToScope
\* call per scope name and only for a scope that is desired and not granted,
\* at most one RevokeScopeConsentGrant call per existing grant and only for a
\* granted scope that is not desired.
C3_UpdateIssuesMinimalCalls ==
    op = "ScopeUpdate" =>
        LET D == Range(cfg.scopes)
            C == {g.ScopeId : g \in Range(loc.scopes)}
        IN  /\ \A s \in ScopeNames :
                  Count(calls, LAMBDA c : c.name = "GrantConsentToScope" /\ c.arg = s) <= 1
            /\ \A i \in 1..Len(calls) :
                  calls[i].name = "GrantConsentToScope" => calls[i].arg \in D \ C
            /\ \A g \in Range(loc.scopes) :
                  Count(calls, LAMBDA c : c.name = "RevokeScopeConsentGrant" /\ c.arg = g.Id) <= 1
            /\ \A i \in 1..Len(calls) :
                  calls[i].name = "RevokeScopeConsentGrant" =>
                      \E g \in Range(loc.scopes) :
                          g.Id = calls[i].arg /\ g.ScopeId \in C \ D

\* the calls of a resourceUserCreate that runs to its end, for its configuration
CreateOrder ==
    <<"CreateUser">>
    \o (IF cfg.roles THEN <<"AssignAdminRoles">> ELSE <<>>)
    \o (IF cfg.groups THEN <<"AssignGroups">> ELSE <<>>)
    \o (IF cfg.status \in {userStatusSuspended, userStatusDeprovisioned}
        THEN <<"UpdateUserStatus">> ELSE <<>>)
    \o <<"Read">>

\* every call but the last was accepted, and a call that failed ended the handler
\* with an error
StopsAtFirstFailure ==
    /\ \A i \in 1..(Len(calls) - 1) : calls[i].ok
    /\ (calls # <<>> /\ ~LastCall.ok) => (pc = "done" /\ ret = "err")

\* C4: resourceUserCreate calls CreateUser, then assigns the admin roles (when
\* configured), then the groups (when configured), then updates the status
\* (SUSPENDED, DEPROVISIONED), then reads; a step that fails is the last one
\* and an error is returned.
C4_CreateOrder ==
    op = "UserCreate" =>
        /\ IsPrefix(Names(calls), CreateOrder)
        /\ StopsAtFirstFailure
        /\ ret = "ok" => Names(calls) = CreateOrder
        /\ ret = "err" => ~LastCall.ok

C4_Witness ==
    /\ op = "UserCreate" /\ ret = "ok"
    /\ Names(calls) =
          <<"CreateUser", "AssignAdminRoles", "AssignGroups", "UpdateUserStatus", "Read">>

CrudHandlers ==
    {"UserCreate", "UserUpdate", "SwaCreate", "SwaUpdate", "ScopeCreate", "ScopeUpdate"}

MutatingCalls ==
    {"CreateUser", "AssignAdminRoles", "AssignGroups", "UpdateUserStatus",
     "UpdateUser", "UpdateAdminRoles", "UpdateGroups", "ChangePassword",
     "ChangeRecoveryQuestion", "CreateApplication", "UpdateApplication",
     "SetAppStatus", "HandleAppGroupsAndUsers", "GrantConsentToScope",
     "RevokeScopeConsentGrant"}

\* C5: a Create or Update of the user, SWA application or OAuth API scope
\* resource that returns success has performed the Read as its last call,
\* after every mutating call; one whose mutating call fails returns an error
\* and performs no Read.
C5_ReadAfterLastMutation ==
    op \in CrudHandlers =>
        /\ ret = "ok" => (calls # <<>> /\ LastCall.name = "Read")
        /\ \A i \in 1..Len(calls) : calls[i].name = "Read" => i = Len(calls)
        /\ \A i \in 1..Len(calls) :
              (calls[i].name \in MutatingCalls /\ ~calls[i].ok) =>
                  (pc = "done" /\ ret = "err" /\ ~Issued("Read"))

C5_Witness ==
    /\ op = "SwaUpdate" /\ ret = "ok"
    /\ Names(calls) =
          <<"UpdateApplication", "SetAppStatus", "HandleAppGroupsAndUsers", "Read">>

RECURSIVE Flatten(_, _)
Flatten(pages, k) == IF k = 0 THEN <<>> ELSE Flatten(pages, k - 1) \o pages[k]

CollectUsersSafe ==
    op = "CollectUsers" =>
        LET n == Len(cfg.pages)
            accepted == Count(calls, LAMBDA c : c.ok)
        IN  /\ Len(calls) <= n
            /\ \A i \in 1..Len(calls) :
                  /\ calls[i].name = "ListUsers"
                  /\ calls[i].arg = IF i = 1 THEN ""
                                    ELSE ListUsers(cfg.pages, calls[i - 1].arg).next
            /\ StopsAtFirstFailure
            /\ pc = "listUsers" => Len(calls) < n
            /\ loc.results = Flatten(cfg.pages, accepted)
            /\ (pc = "setUsers" \/ ret = "ok") =>
                  /\ accepted = n
                  /\ loc.results = [u \in 1..Len(loc.results) |-> u]

\* C6: collectUsers issues one ListUsers call per page, each with the "after"
\* cursor of the previous response, stops at the first response without a next
\* cursor or at the first error, terminates, and on success results.Users is
\* the concatenation of all pages in order.
C6_CollectUsers ==
    /\ []CollectUsersSafe
    /\ (op = "CollectUsers") ~> (pc = "done")

C6_Witness ==
    /\ op = "CollectUsers" /\ ret = "ok"
    /\ Len(calls) = 3
    /\ Len(d.users) >= 4

\* C7: resourceUserCreate with status STAGED creates the user with
\* activate=false and issues no status update; resourceUserUpdate whose status
\* changes to STAGED returns an error without a remote call and leaves the
\* remote user and the resource data as they were.
C7_StagedOnCreationOnly ==
    /\ (op = "UserCreate" /\ cfg.status = userStatusStaged) =>
          /\ \A i \in 1..Len(calls) :
                calls[i].name = "CreateUser" => calls[i].arg = "activate=false"
          /\ ~Issued("UpdateUserStatus")
          /\ pc # "createUser" => Issued("CreateUser")
    /\ (op = "UserUpdate" /\ cfg.status = userStatusStaged
            /\ cfg.oldStatus # userStatusStaged) =>
          /\ calls = <<>>
          /\ pc \in {"check", "done"}
          /\ pc = "done" => ret = "err"
          /\ ruser = [status |-> cfg.oldStatus, profile |-> "old",
                      password |-> "old", question |-> "old"]
          /\ d = [NoData EXCEPT !.id = UserId, !.status = cfg.oldStatus]

C7_Witness ==
    /\ op = "UserUpdate" /\ cfg.status = userStatusStaged
    /\ cfg.oldStatus = userStatusSuspended
    /\ cfg.changed # {}
    /\ pc = "done" /\ ret = "err"

\* a key of profileKeys has changed
ProfileKeyChanged == cfg.changed \cap Range(profileKeys) # {}

\* C8: resourceUserUpdate with status DEPROVISIONED and a changed profile key
\* returns an error and issues no UpdateUser, admin-role, group-membership,
\* ChangePassword or ChangeRecoveryQuestion call.
C8_DeprovisionedOnlyStatus ==
    (op = "UserUpdate" /\ cfg.status = userStatusDeprovisioned /\ ProfileKeyChanged) =>
        /\ pc = "done" => ret = "err"
        /\ \A i \in 1..Len(calls) :
              calls[i].name \notin {"UpdateUser", "UpdateAdminRoles", "UpdateGroups",
                                    "ChangePassword", "ChangeRecoveryQuestion"}

C8_Witness ==
    /\ op = "UserUpdate" /\ cfg.status = userStatusDeprovisioned
    /\ cfg.changed = {"password", "admin_roles"}
    /\ pc = "done" /\ ret = "err"
    /\ Len(calls) = 1 /\ calls[1].name = "UpdateUserStatus" /\ calls[1].ok

\* C9: in resourceUserUpdate a changed status is updated by the first remote
\* call, before any profile, role, group or credential call, and when that
\* call fails no other call is issued.
C9_StatusUpdateFirst ==
    (op = "UserUpdate" /\ cfg.status # cfg.oldStatus) =>
        /\ calls # <<>> => calls[1].name = "UpdateUserStatus"
        /\ (calls # <<>> /\ ~calls[1].ok) =>
              (Len(calls) = 1 /\ pc = "done" /\ ret = "err")
        /\ (pc = "done" /\ cfg.status # userStatusStaged) => calls # <<>>

C9_Witness ==
    /\ op = "UserUpdate" /\ cfg.oldStatus = userStatusDeprovisioned
    /\ cfg.status = statusActive
    /\ ret = "ok"
    /\ Len(calls) >= 3
    /\ calls[1].name = "UpdateUserStatus" /\ calls[2].name = "UpdateUser"

\* C10: resourceUserCreate sets the resource id as soon as CreateUser succeeds:
\* a role, group or status step that fails returns an error with the id set;
\* when CreateUser fails the id is not set.
C10_IdSetAfterCreateUser ==
    op = "UserCreate" =>
        /\ (Accepted("CreateUser") /\ ~Issued("Read")) => d.id = UserId
        /\ (calls # <<>> /\ ~LastCall.ok
                /\ LastCall.name \in {"AssignAdminRoles", "AssignGroups", "UpdateUserStatus"}) =>
              (ret = "err" /\ d.id = UserId)
        /\ (calls # <<>> /\ ~calls[1].ok) => (ret = "err" /\ d.id = "")

C10_Witness ==
    /\ op = "UserCreate" /\ ret = "err"
    /\ Len(calls) = 4
    /\ LastCall.name = "UpdateUserStatus" /\ ~LastCall.ok
    /\ d.id = UserId

\* C11: resourceUserCreate issues the updateUserStatus call exactly when the
\* configured status is SUSPENDED or DEPROVISIONED (once CreateUser and the
\* configured role and group assignments have succeeded) and creates the user
\* with activate=false exactly when the status is STAGED; for ACTIVE it does
\* neither.
C11_CreateStatusHandling ==
    op = "UserCreate" =>
        LET wantsStatus == cfg.status \in {userStatusSuspended, userStatusDeprovisioned}
            wantsStaged == cfg.status = userStatusStaged
        IN  /\ Issued("UpdateUserStatus") => wantsStatus
            /\ (wantsStatus /\ (pc = "read" \/ Issued("Read"))) =>
                  Count(calls, LAMBDA c : c.name = "UpdateUserStatus"
                                            /\ c.arg = cfg.status) = 1
            /\ \A i \in 1..Len(calls) :
                  calls[i].name = "CreateUser" =>
                      (calls[i].arg = "activate=false" <=> wantsStaged)
            /\ cfg.status = statusActive =>
                  /\ ~Issued("UpdateUserStatus")
                  /\ \A i \in 1..Len(calls) : calls[i].arg # "activate=false"

C11_Witness ==
    /\ op = "UserCreate" /\ ret = "ok"
    /\ cfg.status = userStatusDeprovisioned
    /\ Accepted("UpdateUserStatus")
    /\ ruser.status = userStatusDeprovisioned

\* C12: ensureUserDelete issues exactly two DeactivateOrDeleteUser calls when
\* the status recorded in the state is not DEPROVISIONED and exactly one when
\* it is; it stops at the first call that fails and returns an error.
C12_DeletePasses ==
    op = "UserDelete" =>
        LET expected == IF d.status = userStatusDeprovisioned THEN 1 ELSE 2
        IN  /\ \A i \in 1..Len(calls) :
                  calls[i].name = "DeactivateOrDeleteUser" /\ calls[i].arg = UserId
            /\ Len(calls) <= expected
            /\ StopsAtFirstFailure
            /\ ret = "ok" => (Len(calls) = expected /\ LastCall.ok)
            /\ ret = "err" => ~LastCall.ok
            /\ pc = "done" <=> ret # "none"
            /\ (pc = "delete" /\ calls # <<>>) => Len(calls) < expected

C12_Witness ==
    /\ op = "UserDelete" /\ ret = "ok"
    /\ d.status = statusActive
    /\ Len(calls) = 2
    /\ ruser = NoUser

====
